---- MODULE Spec2Model ----
(***************************************************************************)
(* Model of starport/services/network/join.go: Builder.Join and the        *)
(* request builders and existence checks it calls.                         *)
(*                                                                         *)
(* One launch (one launchID) is modelled: every query of join.go is keyed  *)
(* by the launchID of the call, so records of other launches are never     *)
(* read.  Each Join invocation is a process whose position (pc) advances   *)
(* by one step per call to an external collaborator (genesis file read,    *)
(* remote query, broadcast, response serialization); the code between two  *)
(* such calls is part of the step that follows the first of them.          *)
(***************************************************************************)
EXTENDS Integers, Sequences, FiniteSets, TLC

\* Number of Join invocations that may run concurrently (SpecRace).
NumJoins == 2
\* Largest number of pending requests the remote store holds initially.
MaxInitRequests == 1

Procs == 1..NumJoins
\* Address universe: the address under test and one other address.
Addrs == {"a1", "a2"}

\* launchtypes.RequestContent variants read by join.go
RequestKinds == {"GenesisAccount", "VestingAccount", "GenesisValidator"}
Requests == [kind : RequestKinds, address : Addrs]

Nil == [type |-> "nil", address |-> "-"]
None == [out |-> "-", err |-> "-"]
NoRet == [msg |-> Nil, err |-> "-", exist |-> FALSE]

ErrNil == "nil"
ErrNotFound == "not found"
ErrTransport(q) == "rpc error: " \o q
ErrGenesisRead == "genesis read error"
ErrValidatorExist == "validator already exist"
ErrBroadcast == "broadcast error"
ErrMarshal == "marshal error"

QueryNames == {"GenesisValidator", "VestingAccount", "GenesisAccount",
               "RequestAllAccount", "RequestAllValidator"}

VARIABLES
    genesisFile,   \* addresses in the genesis accounts of the local genesis file
    finalVal,      \* remote store: finalized genesis validators of the launch
    finalVest,     \* remote store: finalized vesting accounts of the launch
    finalAcc,      \* remote store: finalized genesis accounts of the launch
    requests,      \* remote store: pending requests of the launch, in order
    requests0,     \* history: the pending requests before any Join call began
    customGentx,   \* per Join: the customGentx argument
    address,       \* per Join: b.account.Address(SPNAddressPrefix)
    valAddress,    \* per Join: the valAddress argument
    pc,            \* per Join: position in the code
    messages,      \* per Join: the local slice messages
    acctRet,       \* per Join: what CreateAccountRequestMsg returned
    valRet,        \* per Join: what CreateValidatorRequestMsg returned
    qerr,          \* per Join: the error each remote query returned
    bcast,         \* per Join: the batches passed to BroadcastTx, in order
    delivered,     \* per Join: the broadcast transaction reached the store
    result,        \* per Join: what Join returned
    log            \* per Join: events sent and BroadcastTx calls, in order

storeVars == <<genesisFile, finalVal, finalVest, finalAcc, requests, requests0>>
inputVars == <<customGentx, address, valAddress>>
vars == <<genesisFile, finalVal, finalVest, finalAcc, requests, requests0,
          customGentx, address, valAddress, pc, messages, acctRet, valRet,
          qerr, bcast, delivered, result, log>>

----------------------------------------------------------------------------
\* Values built by the code

Event(phase, text) == [kind |-> "event", phase |-> phase, text |-> text]
CallEntry(name) == [kind |-> "call", phase |-> "-", text |-> name]

EvVerifying == Event("ongoing", "Verifying account already exists")
EvAccCreated == Event("done", "Account message created")
EvAccNotCreated == Event("done", "Account message not created")
EvBroadcasting == Event("ongoing", "Broadcasting transactions")
EvBroadcasted == Event("done", "Transactions broadcasted")

NewMsgRequestAddAccount(a) == [type |-> "MsgRequestAddAccount", address |-> a]
NewMsgRequestAddValidator(a) == [type |-> "MsgRequestAddValidator", address |-> a]

----------------------------------------------------------------------------
\* External collaborators

\* A point lookup of the remote query interface: a record, "not found", or a
\* transport failure.
Lookup(store, a, fail, q) ==
    IF fail THEN ErrTransport(q)
    ELSE IF a \in store THEN ErrNil ELSE ErrNotFound

\* RequestAll of the remote query interface.
RequestAll(fail, q) ==
    IF fail THEN [reqs |-> <<>>, err |-> ErrTransport(q)]
    ELSE [reqs |-> requests, err |-> ErrNil]

\* CheckGenesisAddress: whether the address is in the local genesis accounts.
CheckGenesisAddress(a, fail) ==
    IF fail THEN [exist |-> FALSE, err |-> ErrGenesisRead]
    ELSE [exist |-> a \in genesisFile, err |-> ErrNil]

\* The request the remote ledger records for a delivered message.
RequestOf(m) ==
    IF m.type = "MsgRequestAddAccount"
    THEN [kind |-> "GenesisAccount", address |-> m.address]
    ELSE [kind |-> "GenesisValidator", address |-> m.address]

RECURSIVE RequestsOf(_)
RequestsOf(ms) ==
    IF ms = <<>> THEN <<>>
    ELSE <<RequestOf(Head(ms))>> \o RequestsOf(Tail(ms))

----------------------------------------------------------------------------
\* Pure parts of join.go

\* hasValidator: err == nil
hasValidator(err) == err = ErrNil

\* hasAccount: err == nil of either lookup
hasAccount(err) == err = ErrNil

\* fetchRequests: (nil, err) on failure, (res.Request, err) otherwise
fetchRequests(res) ==
    IF res.err # ErrNil THEN [reqs |-> <<>>, err |-> res.err]
    ELSE [reqs |-> res.reqs, err |-> res.err]

\* Mutant of ScanAccount: the request kind is not tested
ScanAccount_AnyKind(reqs, a) ==
    \E i \in 1..Len(reqs) : reqs[i].address = a

\* The scan of CheckAccountExist over the pending requests
ScanAccount(reqs, a) ==
    \E i \in 1..Len(reqs) :
        /\ reqs[i].kind \in {"GenesisAccount", "VestingAccount"}
        /\ reqs[i].address = a

\* The scan of CheckValidatorExist over the pending requests
ScanValidator(reqs, a) ==
    \E i \in 1..Len(reqs) :
        /\ reqs[i].kind = "GenesisValidator"
        /\ reqs[i].address = a

\* Mutant of ShouldBuild: customGentx is not tested
ShouldBuild_NoCustom(shouldCreateAcc, custom) == shouldCreateAcc

\* if shouldCreateAcc || customGentx
ShouldBuild(shouldCreateAcc, custom) == shouldCreateAcc \/ custom

\* Mutant of AppendAccountMsg: the nil test is missing
AppendAccountMsg_Always(ms, accountMsg) == Append(ms, accountMsg)

\* if accountMsg != nil { messages = append(messages, accountMsg) }
AppendAccountMsg(ms, accountMsg) ==
    IF accountMsg # Nil THEN Append(ms, accountMsg) ELSE ms

----------------------------------------------------------------------------
\* Steps of Join

\* Join returns (out, err)
JoinReturn(p, out, err) ==
    /\ pc' = [pc EXCEPT ![p] = "done"]
    /\ result' = [result EXCEPT ![p] = [out |-> out, err |-> err]]

\* CreateAccountRequestMsg returned (msg, err) to Join
JoinAfterAccount(p, msg, err, exist) ==
    /\ acctRet' = [acctRet EXCEPT ![p] = [msg |-> msg, err |-> err, exist |-> exist]]
    /\ IF err # ErrNil
       THEN /\ JoinReturn(p, "", err)
            /\ UNCHANGED messages
       ELSE /\ messages' = [messages EXCEPT ![p] = AppendAccountMsg(messages[p], msg)]
            /\ pc' = [pc EXCEPT ![p] = "hasValidator"]
            /\ UNCHANGED result

\* Mutant of BuildAccount: no event is sent when the message is not created
BuildAccount_NoSkipEvent(p, exist, lg) ==
    LET shouldCreateAcc == IF customGentx[p] THEN FALSE ELSE ~exist
        create == ShouldBuild(shouldCreateAcc, customGentx[p])
    IN  /\ log' = [log EXCEPT ![p] = IF create THEN Append(lg, EvAccCreated) ELSE lg]
        /\ JoinAfterAccount(p,
               IF create THEN NewMsgRequestAddAccount(address[p]) ELSE Nil,
               ErrNil, exist)

\* The tail of CreateAccountRequestMsg, once exist is known
BuildAccount(p, exist, lg) ==
    LET shouldCreateAcc == IF customGentx[p] THEN FALSE ELSE ~exist
        create == ShouldBuild(shouldCreateAcc, customGentx[p])
    IN  /\ log' = [log EXCEPT ![p] =
                     Append(lg, IF create THEN EvAccCreated ELSE EvAccNotCreated)]
        /\ JoinAfterAccount(p,
               IF create THEN NewMsgRequestAddAccount(address[p]) ELSE Nil,
               ErrNil, exist)

\* CreateAccountRequestMsg failed with err
FailAccount(p, err) ==
    /\ JoinAfterAccount(p, Nil, err, FALSE)
    /\ UNCHANGED log

\* Join calls CreateAccountRequestMsg: the ongoing event, then the customGentx test
CreateAccountRequestMsg(p) ==
    /\ pc[p] = "start"
    /\ LET lg == Append(log[p], EvVerifying)
       IN  IF customGentx[p]
           THEN BuildAccount(p, FALSE, lg)
           ELSE /\ pc' = [pc EXCEPT ![p] = "checkGenesis"]
                /\ log' = [log EXCEPT ![p] = lg]
                /\ UNCHANGED <<messages, acctRet, result>>
    /\ UNCHANGED <<storeVars, inputVars, valRet, qerr, bcast, delivered>>

\* exist, err := CheckGenesisAddress(chainHome, address)
CheckGenesis(p) ==
    /\ pc[p] = "checkGenesis"
    /\ \E fail \in BOOLEAN :
         LET r == CheckGenesisAddress(address[p], fail)
         IN  IF r.err # ErrNil THEN FailAccount(p, r.err)
             ELSE IF r.exist THEN BuildAccount(p, TRUE, log[p])
             ELSE /\ pc' = [pc EXCEPT ![p] = "vestingAccount"]
                  /\ UNCHANGED <<messages, acctRet, result, log>>
    /\ UNCHANGED <<storeVars, inputVars, valRet, qerr, bcast, delivered>>

\* hasAccount: the VestingAccount lookup
QueryVestingAccount(p) ==
    /\ pc[p] = "vestingAccount"
    /\ \E fail \in BOOLEAN :
         LET err == Lookup(finalVest, address[p], fail, "VestingAccount")
         IN  /\ qerr' = [qerr EXCEPT ![p]["VestingAccount"] = err]
             /\ IF hasAccount(err) THEN BuildAccount(p, TRUE, log[p])
                ELSE /\ pc' = [pc EXCEPT ![p] = "genesisAccount"]
                     /\ UNCHANGED <<messages, acctRet, result, log>>
    /\ UNCHANGED <<storeVars, inputVars, valRet, bcast, delivered>>

\* hasAccount: the GenesisAccount lookup
QueryGenesisAccount(p) ==
    /\ pc[p] = "genesisAccount"
    /\ \E fail \in BOOLEAN :
         LET err == Lookup(finalAcc, address[p], fail, "GenesisAccount")
         IN  /\ qerr' = [qerr EXCEPT ![p]["GenesisAccount"] = err]
             /\ IF hasAccount(err) THEN BuildAccount(p, TRUE, log[p])
                ELSE /\ pc' = [pc EXCEPT ![p] = "accountRequests"]
                     /\ UNCHANGED <<messages, acctRet, result, log>>
    /\ UNCHANGED <<storeVars, inputVars, valRet, bcast, delivered>>

\* CheckAccountExist: fetchRequests and the scan for a pending account request
AccountRequests(p) ==
    /\ pc[p] = "accountRequests"
    /\ \E fail \in BOOLEAN :
         LET r == fetchRequests(RequestAll(fail, "RequestAllAccount"))
         IN  /\ qerr' = [qerr EXCEPT ![p]["RequestAllAccount"] = r.err]
             /\ IF r.err # ErrNil THEN FailAccount(p, r.err)
                ELSE BuildAccount(p, ScanAccount(r.reqs, address[p]), log[p])
    /\ UNCHANGED <<storeVars, inputVars, valRet, bcast, delivered>>

\* Mutant of FailValidator: Join drops the error and goes on to broadcast
FailValidator_Continue(p, err, exist) ==
    /\ valRet' = [valRet EXCEPT ![p] = [msg |-> Nil, err |-> err, exist |-> exist]]
    /\ pc' = [pc EXCEPT ![p] = "broadcast"]
    /\ UNCHANGED <<messages, log, result>>

\* CreateValidatorRequestMsg returned (nil, err): Join returns the error
FailValidator(p, err, exist) ==
    /\ valRet' = [valRet EXCEPT ![p] = [msg |-> Nil, err |-> err, exist |-> exist]]
    /\ JoinReturn(p, "", err)
    /\ UNCHANGED <<messages, log>>

\* Mutant of QueryGenesisValidator: the check also answers "exists" when
\* another Join for the same validator address is about to broadcast
QueryGenesisValidator_Locked(p) ==
    /\ pc[p] = "hasValidator"
    /\ \E fail \in BOOLEAN :
         LET err == Lookup(finalVal, valAddress[p], fail, "GenesisValidator")
             held == \E q \in Procs \ {p} :
                        /\ valAddress[q] = valAddress[p]
                        /\ pc[q] \in {"broadcast", "broadcasting"}
         IN  /\ qerr' = [qerr EXCEPT ![p]["GenesisValidator"] = err]
             /\ IF hasValidator(err) \/ held
                THEN FailValidator(p, ErrValidatorExist, TRUE)
                ELSE /\ pc' = [pc EXCEPT ![p] = "validatorRequests"]
                     /\ UNCHANGED <<messages, valRet, result, log>>
    /\ UNCHANGED <<storeVars, inputVars, acctRet, bcast, delivered>>

\* CheckValidatorExist: the GenesisValidator lookup of hasValidator
QueryGenesisValidator(p) ==
    /\ pc[p] = "hasValidator"
    /\ \E fail \in BOOLEAN :
         LET err == Lookup(finalVal, valAddress[p], fail, "GenesisValidator")
         IN  /\ qerr' = [qerr EXCEPT ![p]["GenesisValidator"] = err]
             /\ IF hasValidator(err) THEN FailValidator(p, ErrValidatorExist, TRUE)
                ELSE /\ pc' = [pc EXCEPT ![p] = "validatorRequests"]
                     /\ UNCHANGED <<messages, valRet, result, log>>
    /\ UNCHANGED <<storeVars, inputVars, acctRet, bcast, delivered>>

\* CheckValidatorExist: fetchRequests and the scan; then the validator message,
\* its append to messages and the ongoing event of the broadcast
ValidatorRequests(p) ==
    /\ pc[p] = "validatorRequests"
    /\ \E fail \in BOOLEAN :
         LET r == fetchRequests(RequestAll(fail, "RequestAllValidator"))
             exist == ScanValidator(r.reqs, valAddress[p])
             validatorMsg == NewMsgRequestAddValidator(valAddress[p])
         IN  /\ qerr' = [qerr EXCEPT ![p]["RequestAllValidator"] = r.err]
             /\ IF r.err # ErrNil THEN FailValidator(p, r.err, FALSE)
                ELSE IF exist THEN FailValidator(p, ErrValidatorExist, TRUE)
                ELSE /\ valRet' = [valRet EXCEPT ![p] =
                                     [msg |-> validatorMsg, err |-> ErrNil, exist |-> FALSE]]
                     /\ messages' = [messages EXCEPT ![p] = Append(messages[p], validatorMsg)]
                     /\ log' = [log EXCEPT ![p] = Append(log[p], EvBroadcasting)]
                     /\ pc' = [pc EXCEPT ![p] = "broadcast"]
                     /\ UNCHANGED result
    /\ UNCHANGED <<storeVars, inputVars, acctRet, bcast, delivered>>

\* b.cosmos.BroadcastTx(b.account.Name, messages...) is called
BroadcastTx(p) ==
    /\ pc[p] = "broadcast"
    /\ bcast' = [bcast EXCEPT ![p] = Append(bcast[p], messages[p])]
    /\ log' = [log EXCEPT ![p] = Append(log[p], CallEntry("BroadcastTx"))]
    /\ pc' = [pc EXCEPT ![p] = "broadcasting"]
    /\ UNCHANGED <<storeVars, inputVars, messages, acctRet, valRet, qerr,
                   delivered, result>>

\* BroadcastTx returns: the transaction was rejected or lost (err), or it was
\* delivered and its requests recorded by the remote ledger
BroadcastReturn(p) ==
    /\ pc[p] = "broadcasting"
    /\ \E fail \in BOOLEAN :
         IF fail
         THEN /\ JoinReturn(p, "", ErrBroadcast)
              /\ UNCHANGED <<requests, delivered>>
         ELSE /\ requests' = requests \o RequestsOf(messages[p])
              /\ delivered' = [delivered EXCEPT ![p] = TRUE]
              /\ pc' = [pc EXCEPT ![p] = "marshal"]
              /\ UNCHANGED result
    /\ UNCHANGED <<genesisFile, finalVal, finalVest, finalAcc, requests0,
                   inputVars, messages, acctRet, valRet, qerr, bcast, log>>

\* Mutant of MarshalJSON: the done event is not sent
MarshalJSON_NoEvent(p) ==
    /\ pc[p] = "marshal"
    /\ \E fail \in BOOLEAN :
         IF fail
         THEN JoinReturn(p, "", ErrMarshal)
         ELSE JoinReturn(p, "response", ErrNil)
    /\ UNCHANGED <<storeVars, inputVars, messages, acctRet, valRet, qerr,
                   bcast, delivered, log>>

\* out, err := MarshalJSON(response); the done event; return string(out), err
MarshalJSON(p) ==
    /\ pc[p] = "marshal"
    /\ \E fail \in BOOLEAN :
         IF fail
         THEN /\ JoinReturn(p, "", ErrMarshal)
              /\ UNCHANGED log
         ELSE /\ log' = [log EXCEPT ![p] = Append(log[p], EvBroadcasted)]
              /\ JoinReturn(p, "response", ErrNil)
    /\ UNCHANGED <<storeVars, inputVars, messages, acctRet, valRet, qerr,
                   bcast, delivered>>

----------------------------------------------------------------------------
\* Specifications

InitRequests ==
    UNION {[1..n -> Requests] : n \in 0..MaxInitRequests}

InitLocals ==
    /\ messages = [p \in Procs |-> <<>>]
    /\ acctRet = [p \in Procs |-> NoRet]
    /\ valRet = [p \in Procs |-> NoRet]
    /\ qerr = [p \in Procs |-> [q \in QueryNames |-> "-"]]
    /\ bcast = [p \in Procs |-> <<>>]
    /\ delivered = [p \in Procs |-> FALSE]
    /\ result = [p \in Procs |-> None]
    /\ log = [p \in Procs |-> <<>>]

\* One Join call against any local genesis file and any remote store
Init ==
    /\ genesisFile \in SUBSET Addrs
    /\ finalVal \in SUBSET Addrs
    /\ finalVest \in SUBSET Addrs
    /\ finalAcc \in SUBSET Addrs
    /\ requests \in InitRequests
    /\ requests0 = requests
    /\ \E c \in BOOLEAN, a \in Addrs, v \in Addrs :
         /\ customGentx = [p \in Procs |-> c]
         /\ address = [p \in Procs |-> a]
         /\ valAddress = [p \in Procs |-> v]
    /\ pc = [p \in Procs |-> IF p = 1 THEN "start" ELSE "off"]
    /\ InitLocals

\* NumJoins concurrent Join calls of one builder, all for the same validator
\* address, against an empty genesis file and an empty remote store
InitRace ==
    /\ genesisFile = {}
    /\ finalVal = {}
    /\ finalVest = {}
    /\ finalAcc = {}
    /\ requests = <<>>
    /\ requests0 = requests
    /\ \E c \in BOOLEAN, v \in Addrs :
         /\ customGentx = [p \in Procs |-> c]
         /\ address = [p \in Procs |-> "a1"]
         /\ valAddress = [p \in Procs |-> v]
    /\ pc = [p \in Procs |-> "start"]
    /\ InitLocals

Next ==
    \E p \in Procs :
        \/ CreateAccountRequestMsg(p)
        \/ CheckGenesis(p)
        \/ QueryVestingAccount(p)
        \/ QueryGenesisAccount(p)
        \/ AccountRequests(p)
        \/ QueryGenesisValidator(p)
        \/ ValidatorRequests(p)
        \/ BroadcastTx(p)
        \/ BroadcastReturn(p)
        \/ MarshalJSON(p)

Spec == Init /\ [][Next]_vars

SpecRace == InitRace /\ [][Next]_vars

----------------------------------------------------------------------------
\* Vocabulary of the properties

Range(f) == {f[i] : i \in DOMAIN f}

\* The address had an account record when the Join call began
InGenesisFile(a) == a \in genesisFile
FinalizedAccount(a) == a \in finalVest \/ a \in finalAcc
PendingAccount(a) ==
    \E r \in Range(requests0) :
        r.address = a /\ r.kind \in {"GenesisAccount", "VestingAccount"}
AccountKnown(a) == InGenesisFile(a) \/ FinalizedAccount(a) \/ PendingAccount(a)

\* The address had a validator record when the Join call began
FinalizedValidator(a) == a \in finalVal
PendingValidator(a) ==
    \E r \in Range(requests0) : r.address = a /\ r.kind = "GenesisValidator"
ValidatorKnown(a) == FinalizedValidator(a) \/ PendingValidator(a)

\* The address has a validator record in the remote store now
ValidatorInStore(a) ==
    \/ a \in finalVal
    \/ \E r \in Range(requests) : r.address = a /\ r.kind = "GenesisValidator"

AccountReturned(p) == acctRet[p] # NoRet
ValidatorReturned(p) == valRet[p] # NoRet
Returned(p) == pc[p] = "done"
Succeeded(p) == result[p] = [out |-> "response", err |-> ErrNil]

\* No genesis-file read and no remote query of the call failed
NoQueryFailed(p) ==
    /\ acctRet[p].err # ErrGenesisRead
    /\ \A q \in QueryNames : qerr[p][q] # ErrTransport(q)

AccountMsgOf(p) == NewMsgRequestAddAccount(address[p])
ValidatorMsgOf(p) == NewMsgRequestAddValidator(valAddress[p])

\* Position of the first occurrence of e in the log of p (0: none)
IndexOf(p, e) ==
    IF \E i \in 1..Len(log[p]) : log[p][i] = e
    THEN CHOOSE i \in 1..Len(log[p]) :
            /\ log[p][i] = e
            /\ \A j \in 1..(i - 1) : log[p][j] # e
    ELSE 0

\* The log of p holds the events of CreateAccountRequestMsg and nothing else
OnlyAccountCallLogged(p) == AccountReturned(p) /\ pc[p] \in {"hasValidator", "done"}
                            /\ ~ValidatorReturned(p)

----------------------------------------------------------------------------
\* Properties

\* C1 (as claimed, its message part): with customGentx false,
\* CreateAccountRequestMsg returns no account message for an address that is in
\* the local genesis file, has a finalized account or vesting-account record,
\* or has a pending account or vesting-account request.
C1_NoAccountMsgWhenKnown ==
    \A p \in Procs :
        (AccountReturned(p) /\ ~customGentx[p] /\ AccountKnown(address[p]))
            => acctRet[p].msg = Nil

\* C2: with customGentx true, CreateAccountRequestMsg returns the account
\* message of the builder address and no error, whatever the genesis file and
\* the remote store hold.
C2_CustomGentxAlwaysBuilds ==
    \A p \in Procs :
        (AccountReturned(p) /\ customGentx[p])
            => /\ acctRet[p].msg = AccountMsgOf(p)
               /\ acctRet[p].err = ErrNil

\* C2 witness: customGentx, and the address is known locally, finalized and pending.
C2_Witness ==
    \E p \in Procs :
        /\ AccountReturned(p) /\ customGentx[p]
        /\ InGenesisFile(address[p])
        /\ FinalizedAccount(address[p])
        /\ PendingAccount(address[p])

\* C3 (as claimed, its broadcast part): a Join whose validator address has a
\* finalized validator record or a pending validator request never calls
\* BroadcastTx.
C3_NoBroadcastWhenValidatorKnown ==
    \A p \in Procs :
        ValidatorKnown(valAddress[p]) => bcast[p] = <<>>

\* C4 (as claimed): a Join of a fresh account address and a fresh validator
\* address in which no query fails passes the account message and the validator
\* message to one BroadcastTx call and returns the serialized response.
C4_FreshJoinSucceeds ==
    \A p \in Procs :
        (/\ Returned(p)
         /\ ~AccountKnown(address[p])
         /\ ~ValidatorKnown(valAddress[p])
         /\ NoQueryFailed(p))
            => /\ bcast[p] = << <<AccountMsgOf(p), ValidatorMsgOf(p)>> >>
               /\ Succeeded(p)

\* C4 (amended): such a Join passes the account message and the validator
\* message to one BroadcastTx call, and returns the serialized response unless
\* BroadcastTx or the serialization of the response fails, when it returns that
\* error.
C4_FreshJoinBroadcastsOnce ==
    \A p \in Procs :
        (/\ Returned(p)
         /\ ~AccountKnown(address[p])
         /\ ~ValidatorKnown(valAddress[p])
         /\ NoQueryFailed(p))
            => /\ acctRet[p].msg = AccountMsgOf(p)
               /\ valRet[p].msg = ValidatorMsgOf(p)
               /\ bcast[p] = << <<AccountMsgOf(p), ValidatorMsgOf(p)>> >>
               /\ \/ Succeeded(p)
                  \/ result[p] = [out |-> "", err |-> ErrBroadcast]
                  \/ result[p] = [out |-> "", err |-> ErrMarshal]

\* C4 witness: a fresh Join without customGentx made all its checks and succeeded.
C4_Witness ==
    \E p \in Procs :
        /\ Returned(p) /\ Succeeded(p) /\ ~customGentx[p]
        /\ ~AccountKnown(address[p])
        /\ ~ValidatorKnown(valAddress[p])
        /\ requests0 # <<>>
        /\ bcast[p] = << <<AccountMsgOf(p), ValidatorMsgOf(p)>> >>

\* C5 (as claimed): Join never returns an error after its transaction has been
\* broadcast.
C5_NoErrorAfterBroadcast ==
    \A p \in Procs :
        (Returned(p) /\ result[p].err # ErrNil) => ~delivered[p]

\* C5 (amended): Join returns success only after both builders succeeded and
\* the batch was broadcast; an error of a builder is returned before BroadcastTx
\* is called; an error returned after BroadcastTx was called is the error of
\* BroadcastTx or, once the transaction was broadcast, of the serialization of
\* the response.
C5_ErrorOrBroadcast ==
    \A p \in Procs :
        Returned(p) =>
            IF result[p].err = ErrNil
            THEN /\ Succeeded(p)
                 /\ acctRet[p].err = ErrNil
                 /\ valRet[p].err = ErrNil
                 /\ bcast[p] = <<messages[p]>>
                 /\ delivered[p]
            ELSE /\ result[p].out = ""
                 /\ \/ bcast[p] = <<>> /\ ~delivered[p]
                       /\ result[p].err \in {acctRet[p].err, valRet[p].err}
                    \/ Len(bcast[p]) = 1 /\ result[p].err = ErrBroadcast
                    \/ Len(bcast[p]) = 1 /\ delivered[p] /\ result[p].err = ErrMarshal

\* C5 witness: Join returned the serialization error after the broadcast.
C5_Witness ==
    \E p \in Procs :
        Returned(p) /\ result[p].err = ErrMarshal /\ delivered[p]

\* C6 (as claimed): a transport error of a remote query made by
\* CheckAccountExist or CheckValidatorExist is what the check returns (seen in
\* the error of the builder that called it, which returns the check's error
\* unchanged).
C6_TransportErrorPropagated ==
    \A p \in Procs :
        /\ AccountReturned(p) =>
              \A q \in {"VestingAccount", "GenesisAccount", "RequestAllAccount"} :
                  qerr[p][q] = ErrTransport(q) => acctRet[p].err = ErrTransport(q)
        /\ ValidatorReturned(p) =>
              \A q \in {"GenesisValidator", "RequestAllValidator"} :
                  qerr[p][q] = ErrTransport(q) => valRet[p].err = ErrTransport(q)

\* C7 (as claimed): every call of CreateAccountRequestMsg sends exactly two
\* events, an ongoing one and then a done one.
C7_TwoEventsAlways ==
    \A p \in Procs :
        OnlyAccountCallLogged(p) =>
            /\ Len(log[p]) = 2
            /\ log[p][1].kind = "event" /\ log[p][1].phase = "ongoing"
            /\ log[p][2].kind = "event" /\ log[p][2].phase = "done"

\* C7 (amended): a call of CreateAccountRequestMsg that returns no error sends
\* exactly two events, the ongoing one and then the done one of its branch; a
\* call that returns an error sends the ongoing event alone.
C7_TwoEventsUnlessError ==
    \A p \in Procs :
        OnlyAccountCallLogged(p) =>
            log[p] = IF acctRet[p].err # ErrNil THEN <<EvVerifying>>
                     ELSE IF acctRet[p].msg # Nil THEN <<EvVerifying, EvAccCreated>>
                     ELSE <<EvVerifying, EvAccNotCreated>>

\* C7 witness: the call skipped the message of an address found remotely.
C7_Witness ==
    \E p \in Procs :
        /\ OnlyAccountCallLogged(p)
        /\ ~customGentx[p] /\ ~InGenesisFile(address[p])
        /\ acctRet[p].exist
        /\ log[p] = <<EvVerifying, EvAccNotCreated>>

\* C8: concurrent Joins are not coordinated.  CreateValidatorRequestMsg reports
\* the conflict only for a validator record the remote store holds, never for
\* another Join in flight; so (witness) two Joins for the same validator address
\* both pass the check and both call BroadcastTx before either message reaches
\* the store.
C8_ConflictOnlyFromStore ==
    \A p \in Procs :
        /\ valRet[p].err = ErrValidatorExist => ValidatorInStore(valAddress[p])
        /\ (ValidatorReturned(p) /\ valRet[p].err = ErrNil) =>
              (pc[p] = "broadcast" => ENABLED BroadcastTx(p))

\* C8 witness: two Joins called BroadcastTx with a validator request for the
\* same address and neither transaction has reached the store.
C8_Witness ==
    \E p \in Procs, q \in Procs :
        /\ p # q
        /\ valAddress[p] = valAddress[q]
        /\ ~delivered[p] /\ ~delivered[q]
        /\ ~ValidatorInStore(valAddress[p])
        /\ Len(bcast[p]) = 1 /\ ValidatorMsgOf(p) \in Range(bcast[p][1])
        /\ Len(bcast[q]) = 1 /\ ValidatorMsgOf(q) \in Range(bcast[q][1])

\* C9 (as claimed): the ongoing event "Broadcasting transactions" precedes the
\* call of BroadcastTx, and when BroadcastTx returned a response Join has sent
\* the done event "Transactions broadcasted" after it by the time it returns.
C9_DoneEventAfterBroadcast ==
    \A p \in Procs :
        /\ bcast[p] # <<>> =>
              /\ IndexOf(p, EvBroadcasting) > 0
              /\ IndexOf(p, EvBroadcasting) < IndexOf(p, CallEntry("BroadcastTx"))
        /\ (Returned(p) /\ delivered[p]) =>
              IndexOf(p, EvBroadcasted) > IndexOf(p, CallEntry("BroadcastTx"))

\* C9 (amended): the ongoing event precedes the call of BroadcastTx; when
\* BroadcastTx returned a response and the response was serialized, the done
\* event is the last thing Join does before it returns; when the serialization
\* failed, no done event is sent.
C9_DoneEventAfterSerialization ==
    \A p \in Procs :
        /\ bcast[p] # <<>> =>
              /\ IndexOf(p, EvBroadcasting) > 0
              /\ IndexOf(p, EvBroadcasting) < IndexOf(p, CallEntry("BroadcastTx"))
        /\ (Returned(p) /\ delivered[p]) =>
              IF result[p].err = ErrNil
              THEN /\ IndexOf(p, EvBroadcasted) = Len(log[p])
                   /\ IndexOf(p, EvBroadcasted) > IndexOf(p, CallEntry("BroadcastTx"))
              ELSE IndexOf(p, EvBroadcasted) = 0
        /\ ~delivered[p] => IndexOf(p, EvBroadcasted) = 0

\* C9 witness: Join returned the response after both events and the call.
C9_Witness ==
    \E p \in Procs :
        /\ Returned(p) /\ delivered[p] /\ Succeeded(p)
        /\ IndexOf(p, EvBroadcasting) + 1 = IndexOf(p, CallEntry("BroadcastTx"))
        /\ IndexOf(p, EvBroadcasted) = Len(log[p])

\* C10: BroadcastTx is called at most once per Join, and its batch is the
\* validator message of the call, preceded by nothing or by the account message
\* of the builder address.
C10_BatchShape ==
    \A p \in Procs :
        /\ Len(bcast[p]) <= 1
        /\ \A i \in 1..Len(bcast[p]) :
              \/ bcast[p][i] = <<ValidatorMsgOf(p)>>
              \/ bcast[p][i] = <<AccountMsgOf(p), ValidatorMsgOf(p)>>

\* C10 witness: a batch of the validator message alone was broadcast.
C10_Witness ==
    \E p \in Procs :
        /\ bcast[p] = << <<ValidatorMsgOf(p)>> >>
        /\ acctRet[p].msg = Nil
        /\ delivered[p]

====
